---------------------------- MODULE Spec2Model ----------------------------
(***************************************************************************)
(* Model of record.py: AzureKinectRecorder.                                *)
(*                                                                         *)
(* Two threads: the main thread executing run() (the GPIO polling loop,    *)
(* then end()), and the save thread executing save_frames_worker().  The   *)
(* shared objects are frame_queue, stop_event, the attribute self.out_dir  *)
(* and the file system.  The levels of the two input pins, the wall clock  *)
(* and the results of camera.get_capture() are inputs, drawn where the     *)
(* code reads them.                                                        *)
(***************************************************************************)
EXTENDS Integers, Sequences, FiniteSets

(***************************************************************************)
(* Bounds of the environment.                                              *)
(***************************************************************************)
MaxTriggers == 2
MaxSessions == 2
MaxFaults == 1
MaxEndCalls == 2

(***************************************************************************)
(* Program constants.                                                      *)
(***************************************************************************)
HIGH == "HIGH"
LOW == "LOW"
Levels == {HIGH, LOW}
NotRead == "none"

\* The datetime format '%y-%m-%d_%H-%M' keeps minutes and drops the seconds:
\* the clock of the model advances in steps of 1/TicksPerMinute minute.
TicksPerMinute == 2

\* The clock readings of a run span one change of the minute.
MaxNow == TicksPerMinute

\* folders (line 92) and the keys of frame_types (lines 98-104), in order.
folders == <<"color", "transformed_color", "depth", "transformed_depth", "ir">>
frame_types == <<"color", "transformed_color", "depth", "transformed_depth", "ir">>

VARIABLES
    \* environment, as the program has read it
    now,                \* wall clock, as last read by datetime.now()
    input15,            \* level GPIO.input(15) returned on this pass of the loop
    input16,            \* level GPIO.input(16) last returned in the open session
    \* main thread: run() and end()
    pc,                 \* position of the main thread
    session_active,
    frame_count,
    last_state_pin16,
    out_dir,            \* self.out_dir: <<>> before the first session, else <<timestamp>>
    \* shared objects
    frame_queue,
    stop_event,
    \* save thread: save_frames_worker() and capture_frame()
    wpc,                \* position of the save thread
    frame_data,         \* the item the save thread holds: <<>> or <<item>>
    widx,               \* index into folders / frame_types
    \* hardware and file system
    camStops,           \* number of camera.stop() calls
    gpioCleanups,       \* number of GPIO.cleanup() calls
    dirs,               \* directories created
    intrinsics,         \* session directories holding intrinsic.json
    written,            \* image files written: [capture, path]
    \* history
    sessions,           \* number of sessions opened
    sessionsEnded,      \* number of 'Session Ended' log lines (line 163)
    trigLog,            \* acquisitions requested: [sess, ok]
    enqLog,             \* items put into frame_queue: [sess, seq, dir]
    startLog,           \* captures in the order capture_frame was entered
    finished,           \* captures for which capture_frame returned
    failed,             \* <<capture, channel>> for which imwrite wrote no file
    errLog,             \* number of logging.error calls of capture_frame
    faults,             \* number of times makedirs or imwrite raised in the save thread
    intrinsicFailed     \* write_intrinsic_matrix raised (line 143)

envVars == <<now, input15, input16>>
mainVars == <<pc, session_active, frame_count, last_state_pin16, out_dir>>
sharedVars == <<frame_queue, stop_event>>
workerVars == <<wpc, frame_data, widx>>
hwVars == <<camStops, gpioCleanups>>
fsVars == <<dirs, intrinsics, written>>
histVars == <<sessions, sessionsEnded, trigLog, enqLog, startLog, finished, failed, errLog, faults,
              intrinsicFailed, sessionsEnded>>
vars == <<envVars, mainVars, sharedVars, workerVars, hwVars, fsVars, histVars>>

(***************************************************************************)
(* Pure helpers.                                                           *)
(***************************************************************************)
\* datetime.now().strftime('%y-%m-%d_%H-%M')
Strftime(t) == t \div TicksPerMinute

\* os.path.join(self.fn, timestamp)
JoinOutDir(timestamp) == <<timestamp>>

\* os.path.join(self.out_dir, folder)
SubDir(d, folder) == [dir |-> d, sub |-> folder]

\* the session directory itself
TopDir(d) == [dir |-> d, sub |-> ""]

\* os.path.join(self.out_dir, frame_type, f'{frame_type}_{frame_count:03}.png')
FilePath(d, frame_type, n) == [dir |-> d, ch |-> frame_type, seq |-> n]

\* mutant of StartCond: a session is opened whenever the session pin is LOW
StartCondLevel(level15, active) == level15 = LOW

\* line 138: GPIO.input(15) == GPIO.LOW and not session_active
StartCond(level15, active) == level15 = LOW /\ ~active

\* mutant of InnerCond: the inner loop does not look at the session pin
InnerCondAlways(level15) == TRUE

\* line 152: GPIO.input(15) == GPIO.LOW
InnerCond(level15) == level15 = LOW

\* mutant of FallingEdge: triggering on the LOW level
FallingEdgeLevel(last, current) == current = LOW

\* line 154: last_state_pin16 == GPIO.HIGH and current_state_pin16 == GPIO.LOW
FallingEdge(last, current) == last = HIGH /\ current = LOW

\* mutant of Available: the result of get_capture is not tested
AvailableAlways(capture) == TRUE

\* line 156: if capture
Available(capture) == capture

\* line 157: the tuple put into the queue
QueueItem(capture, n) == [capture |-> capture, frame_count |-> n]

\* mutant of NextFrameCount: a number is skipped
NextFrameCountSkip(n) == n + 2

\* line 158: frame_count += 1
NextFrameCount(n) == n + 1

\* line 159: last_state_pin16 = current_state_pin16
NextLastState(last, current) == current

\* mutant of QueueGet: the newest item, as a LifoQueue returns it
QueueGetNewest(q) == q[Len(q)]

\* queue.Queue.get: the oldest item
QueueGet(q) == Head(q)

\* queue.Queue after get
QueueRest(q) == Tail(q)

\* mutant of WorkerCond: the save thread does not look at the stop event
WorkerCondForever(stop, q) == TRUE

\* line 116: not self.stop_event.is_set() or not self.frame_queue.empty()
WorkerCond(stop, q) == ~stop \/ q # <<>>

\* positions of the main thread inside the try block of run()
LoopPcs == {"poll", "mkdir", "intrinsic", "arm", "inner"}

(***************************************************************************)
(* Inputs.                                                                 *)
(***************************************************************************)
\* The wall clock never runs backwards.
ClockReadings(last) == last..MaxNow

\* The session switch at line 138: it is pulled LOW at most MaxSessions times.
Pin15AtPoll == IF sessions < MaxSessions THEN Levels ELSE {HIGH}

\* The frame pulse at line 153: it falls at most MaxTriggers times in sessions.
Pin16AtTick(last) ==
    IF Len(trigLog) < MaxTriggers \/ last = LOW THEN Levels ELSE {HIGH}

\* camera.get_capture() at line 155: a capture (TRUE) or nothing (FALSE)
Captures == {TRUE, FALSE}

Init ==
    /\ now = 0
    /\ input15 = NotRead
    /\ input16 = NotRead
    /\ pc = "run"
    /\ session_active = FALSE
    /\ frame_count = 0
    /\ last_state_pin16 = HIGH
    /\ out_dir = <<>>
    /\ frame_queue = <<>>
    /\ stop_event = FALSE
    /\ wpc = "none"
    /\ frame_data = <<>>
    /\ widx = 0
    /\ camStops = 0
    /\ gpioCleanups = 0
    /\ dirs = {}
    /\ intrinsics = {}
    /\ written = {}
    /\ sessions = 0
    /\ trigLog = <<>>
    /\ enqLog = <<>>
    /\ startLog = <<>>
    /\ finished = {}
    /\ failed = {}
    /\ errLog = 0
    /\ faults = 0
    /\ intrinsicFailed = FALSE
    /\ sessionsEnded = 0

(***************************************************************************)
(* Main thread: run().                                                     *)
(***************************************************************************)
\* lines 124-134: GPIO setup, start of the save thread
RunSetup ==
    /\ pc = "run"
    /\ pc' = "poll"
    /\ wpc' = "loop"
    /\ UNCHANGED <<envVars, session_active, frame_count, last_state_pin16, out_dir,
                   sharedVars, frame_data, widx, hwVars, fsVars, histVars>>

\* lines 138-140: the session pin is LOW and no session is active
PollStart ==
    /\ pc = "poll"
    /\ \E level15 \in Pin15AtPoll :
          /\ StartCond(level15, session_active)
          /\ input15' = level15
    /\ \E t \in ClockReadings(now) :
          /\ now' = t
          /\ out_dir' = JoinOutDir(Strftime(t))
    /\ sessions' = sessions + 1
    /\ input16' = NotRead
    /\ pc' = "mkdir"
    /\ UNCHANGED <<session_active, frame_count, last_state_pin16, sharedVars,
                   workerVars, hwVars, fsVars, trigLog, enqLog, startLog, finished,
                   failed, errLog, faults,
                   intrinsicFailed, sessionsEnded>>

\* lines 138, 162-166: the elif branch
PollEnd ==
    /\ pc = "poll"
    /\ \E level15 \in Levels :
          /\ ~StartCond(level15, session_active)
          /\ input15' = level15
    /\ session_active
    /\ session_active' = FALSE
    /\ sessionsEnded' = sessionsEnded + 1
    /\ UNCHANGED <<now, input16, pc, frame_count, last_state_pin16, out_dir, sharedVars,
                   workerVars, hwVars, fsVars, sessions, trigLog, enqLog, startLog,
                   finished, failed, errLog, faults, intrinsicFailed>>

\* mutant of PollIdle: the frame pin is watched in the outer loop too
PollIdleCapturing ==
    /\ pc = "poll"
    /\ \E level15 \in Levels :
          /\ ~StartCond(level15, session_active)
          /\ input15' = level15
    /\ ~session_active
    /\ \E current_state_pin16 \in Pin16AtTick(last_state_pin16) :
          /\ IF FallingEdge(last_state_pin16, current_state_pin16)
             THEN /\ trigLog' = Append(trigLog, [sess |-> sessions, ok |-> TRUE])
                  /\ frame_queue' = Append(frame_queue,
                                           QueueItem(Len(enqLog) + 1, frame_count))
                  /\ enqLog' = Append(enqLog, [sess |-> sessions, seq |-> frame_count,
                                               dir |-> out_dir])
                  /\ frame_count' = NextFrameCount(frame_count)
             ELSE UNCHANGED <<trigLog, frame_queue, enqLog, frame_count>>
          /\ last_state_pin16' = NextLastState(last_state_pin16, current_state_pin16)
          /\ input16' = current_state_pin16
    /\ UNCHANGED <<now, pc, session_active, out_dir, stop_event, workerVars, hwVars,
                   fsVars, sessions, startLog, finished, failed, errLog, faults,
                   intrinsicFailed, sessionsEnded>>

\* lines 138, 162, 166: neither branch
PollIdle ==
    /\ pc = "poll"
    /\ \E level15 \in Levels :
          /\ ~StartCond(level15, session_active)
          /\ input15' = level15
    /\ ~session_active
    /\ UNCHANGED <<now, input16, mainVars, sharedVars, workerVars, hwVars, fsVars, histVars>>

\* mutant of LeaveLoop: the stop event is set and the polling loop goes on
LeaveLoopRunsOn ==
    /\ stop_event' = TRUE
    /\ input15' = NotRead
    /\ pc' = pc

\* An exception leaves the while loop of run(): the except clause logs, the
\* finally clause calls end(), whose first statement sets the stop event
\* (lines 167-172, 175).  Nothing shared is touched in between.
LeaveLoop ==
    /\ stop_event' = TRUE
    /\ input15' = NotRead
    /\ pc' = "end_join"

\* mutant of SessionMkdir: the session directory is not created at session
\* start
SessionMkdirSkipped ==
    /\ pc = "mkdir"
    /\ pc' = "intrinsic"
    /\ UNCHANGED <<envVars, session_active, frame_count, last_state_pin16, out_dir,
                   sharedVars, workerVars, hwVars, fsVars, histVars>>

\* line 141: self.create_directory(self.out_dir)
SessionMkdir ==
    /\ pc = "mkdir"
    /\ dirs' = dirs \cup {TopDir(out_dir)}
    /\ pc' = "intrinsic"
    /\ UNCHANGED <<envVars, session_active, frame_count, last_state_pin16, out_dir,
                   sharedVars, workerVars, hwVars, intrinsics, written, histVars>>

\* line 141: os.makedirs raises; lines 169-172 and 175
SessionMkdirFail ==
    /\ pc = "mkdir"
    /\ TopDir(out_dir) \notin dirs
    /\ LeaveLoop
    /\ UNCHANGED <<now, input16, session_active, frame_count, last_state_pin16, out_dir,
                   frame_queue, workerVars, hwVars, fsVars, histVars>>

\* line 143: self.write_intrinsic_matrix(self.out_dir)
WriteIntrinsic ==
    /\ pc = "intrinsic"
    /\ intrinsics' = intrinsics \cup {out_dir}
    /\ pc' = "arm"
    /\ UNCHANGED <<envVars, session_active, frame_count, last_state_pin16, out_dir,
                   sharedVars, workerVars, hwVars, dirs, written, histVars>>

\* line 143: open or json.dump raises; lines 169-172 and 175
WriteIntrinsicFail ==
    /\ pc = "intrinsic"
    /\ LeaveLoop
    /\ intrinsicFailed' = TRUE
    /\ UNCHANGED <<now, input16, session_active, frame_count, last_state_pin16, out_dir,
                   frame_queue, workerVars, hwVars, fsVars, sessions, trigLog, enqLog,
                   startLog, finished, failed, errLog, faults, sessionsEnded>>

\* mutant of SessionArm: the frame pin is not sampled at session start, the
\* previous sample is the one the last session left behind
SessionArmStale ==
    /\ pc = "arm"
    /\ frame_count' = 0
    /\ session_active' = TRUE
    /\ pc' = "inner"
    /\ UNCHANGED <<envVars, last_state_pin16, out_dir, sharedVars, workerVars, hwVars,
                   fsVars, histVars>>

\* lines 145-150
SessionArm ==
    /\ pc = "arm"
    /\ frame_count' = 0
    /\ \E level16 \in Levels :
          /\ last_state_pin16' = level16
          /\ input16' = level16
    /\ session_active' = TRUE
    /\ pc' = "inner"
    /\ UNCHANGED <<now, input15, out_dir, sharedVars, workerVars, hwVars, fsVars,
                   histVars>>

\* lines 152-160, one pass of the inner loop with the session pin LOW
InnerTick ==
    /\ pc = "inner"
    /\ \E level15 \in Levels :
          /\ InnerCond(level15)
          /\ input15' = level15
    /\ \E current_state_pin16 \in Pin16AtTick(last_state_pin16) :
          /\ IF FallingEdge(last_state_pin16, current_state_pin16)
             THEN \E capture \in Captures :
                    /\ trigLog' = Append(trigLog, [sess |-> sessions, ok |-> capture])
                    /\ IF Available(capture)
                       THEN /\ frame_queue' = Append(frame_queue,
                                                 QueueItem(Len(enqLog) + 1, frame_count))
                            /\ enqLog' = Append(enqLog, [sess |-> sessions,
                                                         seq |-> frame_count,
                                                         dir |-> out_dir])
                            /\ frame_count' = NextFrameCount(frame_count)
                       ELSE UNCHANGED <<frame_queue, enqLog, frame_count>>
             ELSE UNCHANGED <<trigLog, frame_queue, enqLog, frame_count>>
          /\ last_state_pin16' = NextLastState(last_state_pin16, current_state_pin16)
          /\ input16' = current_state_pin16
    /\ UNCHANGED <<now, pc, session_active, out_dir, stop_event, workerVars, hwVars,
                   fsVars, sessions, startLog, finished, failed, errLog, faults,
                   intrinsicFailed, sessionsEnded>>

\* line 152 is false: the inner loop ends; line 166
InnerExit ==
    /\ pc = "inner"
    /\ \E level15 \in Levels :
          /\ ~InnerCond(level15)
          /\ input15' = level15
    /\ pc' = "poll"
    /\ UNCHANGED <<now, input16, session_active, frame_count, last_state_pin16, out_dir,
                   sharedVars, workerVars, hwVars, fsVars, histVars>>

\* lines 167-168, 171-172 and 175: KeyboardInterrupt anywhere in the loop
Interrupt ==
    /\ pc \in LoopPcs
    /\ LeaveLoop
    /\ UNCHANGED <<now, input16, session_active, frame_count, last_state_pin16, out_dir,
                   frame_queue, workerVars, hwVars, fsVars, histVars>>

(***************************************************************************)
(* Main thread: end().                                                     *)
(***************************************************************************)
\* lines 176-177: join returns once the save thread has terminated
EndJoin ==
    /\ pc = "end_join"
    /\ wpc \in {"exited", "dead"}
    /\ pc' = "end_stop"
    /\ UNCHANGED <<envVars, session_active, frame_count, last_state_pin16, out_dir,
                   sharedVars, workerVars, hwVars, fsVars, histVars>>

\* line 178
EndCameraStop ==
    /\ pc = "end_stop"
    /\ camStops' = camStops + 1
    /\ pc' = "end_clean"
    /\ UNCHANGED <<envVars, session_active, frame_count, last_state_pin16, out_dir,
                   sharedVars, workerVars, gpioCleanups, fsVars, histVars>>

\* lines 179-180
EndGpioCleanup ==
    /\ pc = "end_clean"
    /\ gpioCleanups' = gpioCleanups + 1
    /\ pc' = "done"
    /\ UNCHANGED <<envVars, session_active, frame_count, last_state_pin16, out_dir,
                   sharedVars, workerVars, camStops, fsVars, histVars>>

\* lines 174-175: end() is called once more on the recorder after it has
\* returned; the stop event is set again.  The script of lines 182-193 does
\* not do this: the step belongs to SpecEndAgain only.
EndAgain ==
    /\ pc = "done"
    /\ gpioCleanups < MaxEndCalls
    /\ stop_event' = TRUE
    /\ pc' = "end_join"
    /\ UNCHANGED <<envVars, session_active, frame_count, last_state_pin16, out_dir,
                   frame_queue, workerVars, hwVars, fsVars, histVars>>

(***************************************************************************)
(* Save thread: save_frames_worker() and capture_frame().                  *)
(***************************************************************************)
\* line 116, true
WorkerLoop ==
    /\ wpc = "loop"
    /\ WorkerCond(stop_event, frame_queue)
    /\ wpc' = "get"
    /\ UNCHANGED <<envVars, mainVars, sharedVars, frame_data, widx, hwVars, fsVars,
                   histVars>>

\* line 116, false: the thread ends
WorkerExit ==
    /\ wpc = "loop"
    /\ ~WorkerCond(stop_event, frame_queue)
    /\ wpc' = "exited"
    /\ UNCHANGED <<envVars, mainVars, sharedVars, frame_data, widx, hwVars, fsVars,
                   histVars>>

\* lines 118-119: get returns an item, capture_frame is entered
WorkerGet ==
    /\ wpc = "get"
    /\ frame_queue # <<>>
    /\ frame_data' = <<QueueGet(frame_queue)>>
    /\ frame_queue' = QueueRest(frame_queue)
    /\ startLog' = Append(startLog, QueueGet(frame_queue).capture)
    /\ widx' = 1
    /\ wpc' = "fold"
    /\ UNCHANGED <<envVars, mainVars, stop_event, hwVars, fsVars, sessions, trigLog,
                   enqLog, finished, failed, errLog, faults,
                   intrinsicFailed, sessionsEnded>>

\* lines 118, 120-121: get times out on an empty queue
WorkerGetEmpty ==
    /\ wpc = "get"
    /\ frame_queue = <<>>
    /\ wpc' = "loop"
    /\ UNCHANGED <<envVars, mainVars, sharedVars, frame_data, widx, hwVars, fsVars,
                   histVars>>

\* capture_frame, after folder or channel number i: the next position
NextPos(at, i) ==
    IF i < Len(folders) THEN [wpc |-> at, widx |-> i + 1]
    ELSE IF at = "wr" THEN [wpc |-> "loop", widx |-> 0]
    ELSE [wpc |-> "wr", widx |-> 1]

\* Lines 94-96 and 87-89, one folder.  Line 94 and line 96 each join
\* self.out_dir anew, and create_directory tests the path it is given again:
\* whatever line 95 found, the outcome is that of lines 88-89 on the path
\* joined at line 96, or no call at all.  One step per folder covers both.
WorkerFolder ==
    /\ wpc = "fold"
    /\ dirs' = dirs \cup {SubDir(out_dir, folders[widx]), TopDir(out_dir)}
    /\ wpc' = NextPos("fold", widx).wpc
    /\ widx' = NextPos("fold", widx).widx
    /\ UNCHANGED <<envVars, mainVars, sharedVars, frame_data, hwVars, intrinsics,
                   written, histVars>>

\* line 89: os.makedirs raises; nothing in capture_frame or save_frames_worker
\* catches it (line 120 catches queue.Empty only), the save thread ends
WorkerFolderFail ==
    /\ wpc = "fold"
    /\ SubDir(out_dir, folders[widx]) \notin dirs
    /\ faults < MaxFaults
    /\ faults' = faults + 1
    /\ wpc' = "dead"
    /\ UNCHANGED <<envVars, mainVars, sharedVars, frame_data, widx, hwVars, fsVars,
                   sessions, trigLog, enqLog, startLog, finished, failed, errLog,
                   intrinsicFailed, sessionsEnded>>

\* the file written at lines 108-109 for channel number i of the held item
ImageFile(i) ==
    [capture |-> frame_data[1].capture,
     path |-> FilePath(out_dir, frame_types[i], frame_data[1].frame_count)]

\* the captures capture_frame has returned for, after channel number i
Returned(done, i) ==
    IF NextPos("wr", i).wpc = "loop" THEN done \cup {frame_data[1].capture} ELSE done

\* the held item, after channel number i
Held(i) == IF NextPos("wr", i).wpc = "loop" THEN <<>> ELSE frame_data

\* lines 108-109: imwrite writes the file; line 111 after the last channel
WorkerWrite ==
    /\ wpc = "wr"
    /\ SubDir(out_dir, frame_types[widx]) \in dirs
    /\ written' = written \cup {ImageFile(widx)}
    /\ wpc' = NextPos("wr", widx).wpc
    /\ widx' = NextPos("wr", widx).widx
    /\ finished' = Returned(finished, widx)
    /\ frame_data' = Held(widx)
    /\ UNCHANGED <<envVars, mainVars, sharedVars, hwVars, dirs, intrinsics, sessions,
                   trigLog, enqLog, startLog, failed, errLog, faults,
                   intrinsicFailed, sessionsEnded>>

\* lines 108-109: the folder of the path joined at line 108 does not exist;
\* imwrite writes nothing and returns False, which line 109 ignores
WorkerWriteFalse ==
    /\ wpc = "wr"
    /\ SubDir(out_dir, frame_types[widx]) \notin dirs
    /\ failed' = failed \cup {<<frame_data[1].capture, frame_types[widx]>>}
    /\ wpc' = NextPos("wr", widx).wpc
    /\ widx' = NextPos("wr", widx).widx
    /\ finished' = Returned(finished, widx)
    /\ frame_data' = Held(widx)
    /\ UNCHANGED <<envVars, mainVars, sharedVars, hwVars, fsVars, sessions, trigLog,
                   enqLog, startLog, errLog, faults,
                   intrinsicFailed, sessionsEnded>>

\* lines 109, 112-113: imwrite raises; the except clause around the whole
\* for loop logs the error and capture_frame returns
WorkerWriteRaise ==
    /\ wpc = "wr"
    /\ faults < MaxFaults
    /\ faults' = faults + 1
    /\ failed' = failed \cup {<<frame_data[1].capture, frame_types[widx]>>}
    /\ errLog' = errLog + 1
    /\ finished' = finished \cup {frame_data[1].capture}
    /\ frame_data' = <<>>
    /\ wpc' = "loop"
    /\ widx' = 0
    /\ UNCHANGED <<envVars, mainVars, sharedVars, hwVars, fsVars, sessions, trigLog,
                   enqLog, startLog, intrinsicFailed, sessionsEnded>>

Main ==
    \/ RunSetup
    \/ PollStart \/ PollEnd \/ PollIdle
    \/ SessionMkdir \/ SessionMkdirFail
    \/ WriteIntrinsic \/ WriteIntrinsicFail
    \/ SessionArm
    \/ InnerTick \/ InnerExit
    \/ Interrupt
    \/ EndJoin \/ EndCameraStop \/ EndGpioCleanup

Worker ==
    \/ WorkerLoop \/ WorkerExit
    \/ WorkerGet \/ WorkerGetEmpty
    \/ WorkerFolder \/ WorkerFolderFail
    \/ WorkerWrite \/ WorkerWriteFalse \/ WorkerWriteRaise

Next == Main \/ Worker

Spec == Init /\ [][Next]_vars

\* the recorder driven by a caller that calls end() again after run() has
\* returned
NextWithEndAgain == Next \/ EndAgain

SpecEndAgain == Init /\ [][NextWithEndAgain]_vars

\* the steps of end() once it has set the stop event
EndSteps == EndJoin \/ EndCameraStop \/ EndGpioCleanup

\* Both threads keep being scheduled: the save thread, started at line 134,
\* takes its next step as long as it has one, and so does the main thread
\* inside end().  Nothing is assumed about the pins or about interrupts.
FairSpec == Spec /\ WF_vars(Worker) /\ WF_vars(EndSteps)

(***************************************************************************)
(* Vocabulary of the claims.                                               *)
(***************************************************************************)
\* the captures put into the queue so far, numbered in the order of the puts
Enqueued == 1..Len(enqLog)

\* the save thread has ended, by leaving its loop or by an uncaught exception
WorkerEnded == wpc \in {"exited", "dead"}

\* camera.stop() or GPIO.cleanup() has been called
HardwareReleased == camStops > 0 \/ gpioCleanups > 0

\* the items session s put into the queue, in the order of the puts
SessionItems(s) == SelectSeq(enqLog, LAMBDA e : e.sess = s)

\* the acquisitions session s requested, in order
SessionTriggers(s) == SelectSeq(trigLog, LAMBDA t : t.sess = s)

(***************************************************************************)
(* C1                                                                      *)
(***************************************************************************)
\* C1: when end() reports completion (line 180), the queue is empty and
\* capture_frame has run to its end for every item ever put into the queue.
C1_NoFrameDroppedAtShutdown ==
    pc = "done" => /\ frame_queue = <<>>
                   /\ \A c \in Enqueued : c \in finished

\* C1, restricted to the runs in which the save thread left its loop by
\* its loop condition: there the queue is drained at completion.
C1_DrainedIfWorkerLeftItsLoop ==
    (pc = "done" /\ wpc = "exited") => /\ frame_queue = <<>>
                                       /\ \A c \in Enqueued : c \in finished

(***************************************************************************)
(* C2                                                                      *)
(***************************************************************************)
\* C2: the camera and the pins are released only when the stop event is set,
\* the save thread has ended, the queue is empty and no item is being written.
C2_ReleaseAfterDrain ==
    HardwareReleased => /\ stop_event
                        /\ WorkerEnded
                        /\ frame_queue = <<>>
                        /\ frame_data = <<>>

\* C2, the part the join of line 177 gives: hardware is released only when
\* the stop event is set and the save thread has ended.
C2_ReleaseAfterJoin == HardwareReleased => stop_event /\ WorkerEnded

(***************************************************************************)
(* C3                                                                      *)
(***************************************************************************)
\* C3: the save thread enters capture_frame for the captures in exactly the
\* order in which the polling loop put them into the queue: the k-th capture
\* it starts to write is the k-th capture enqueued.
C3_FifoPersistence ==
    /\ Len(startLog) <= Len(enqLog)
    /\ \A k \in 1..Len(startLog) : startLog[k] = k

\* C3 witness: the save thread has started to write a second frame.
C3_Witness == Len(startLog) >= 2 /\ wpc \in {"fold", "wr"}

(***************************************************************************)
(* C4                                                                      *)
(***************************************************************************)
\* C4: every image file written for a capture lies in the output directory
\* of the session that acquired it and carries the sequence number it was
\* enqueued with.
C4_WrittenToOwnDirectory ==
    \A f \in written : /\ f.path.dir = enqLog[f.capture].dir
                       /\ f.path.seq = enqLog[f.capture].seq

\* C4, the part that holds: the file carries the sequence number and the
\* channel name of its capture, whatever directory it went to.
C4_WrittenWithOwnSequence ==
    \A f \in written : f.path.seq = enqLog[f.capture].seq

(***************************************************************************)
(* C5                                                                      *)
(***************************************************************************)
\* C5: the items a session put into the queue carry the sequence numbers
\* 0, 1, 2, ... in the order of the puts, and inside the inner loop the
\* next number to hand out is the number of items the session has enqueued,
\* whatever number of acquisitions returned nothing.
C5_ContiguousSequences ==
    /\ \A s \in 1..sessions :
          LET items == SessionItems(s)
          IN  \A i \in 1..Len(items) : items[i].seq = i - 1
    /\ pc = "inner" => frame_count = Len(SessionItems(sessions))

\* C5 witness: in one session the first acquisition returned nothing and the
\* second returned a capture, which got sequence number 0.
C5_Witness ==
    \E s \in 1..sessions :
        /\ Len(SessionTriggers(s)) = 2
        /\ ~SessionTriggers(s)[1].ok
        /\ SessionTriggers(s)[2].ok
        /\ Len(SessionItems(s)) = 1
        /\ SessionItems(s)[1].seq = 0

(***************************************************************************)
(* C6                                                                      *)
(***************************************************************************)
\* the acquisitions of session s that returned nothing
Unavailable(s) ==
    LET triggers == SessionTriggers(s)
    IN  {i \in 1..Len(triggers) : ~triggers[i].ok}

\* C6: for every session, the number of items it put into the queue is the
\* number of falling edges it detected minus the number of those whose
\* acquisition returned nothing.
C6_EnqueuedIsEdgesMinusUnavailable ==
    \A s \in 1..sessions :
        Len(SessionItems(s)) = Len(SessionTriggers(s)) - Cardinality(Unavailable(s))

\* C6 witness: a session detected two falling edges, the second acquisition
\* returned nothing, one item was enqueued.
C6_Witness ==
    \E s \in 1..sessions :
        /\ Len(SessionTriggers(s)) = 2
        /\ Unavailable(s) = {2}
        /\ Len(SessionItems(s)) = 1

(***************************************************************************)
(* C7                                                                      *)
(***************************************************************************)
\* a step that requests an acquisition or puts an item into the queue
Acquires ==
    \/ Len(trigLog') > Len(trigLog)
    \/ Len(enqLog') > Len(enqLog)
    \/ Len(frame_queue') > Len(frame_queue)

\* C7: no step taken while the main thread is in the outer loop, and no pass
\* of a loop that read the session pin HIGH, requests an acquisition or
\* enqueues anything; before the first session the queue is empty.
C7_NoCaptureWhileIdle ==
    /\ [][(pc = "poll" \/ input15' = HIGH) => ~Acquires]_vars
    /\ [](sessions = 0 => frame_queue = <<>> /\ enqLog = <<>> /\ trigLog = <<>>)

\* C7 witness: the outer loop has polled the session pin HIGH with no
\* session opened yet, the save thread is running, the queue is empty.
C7_Witness ==
    /\ pc = "poll"
    /\ input15 = HIGH
    /\ ~session_active
    /\ sessions = 0
    /\ wpc = "get"
    /\ frame_queue = <<>>

(***************************************************************************)
(* C8                                                                      *)
(***************************************************************************)
\* C8: an acquisition is requested only by a pass of the inner loop that read
\* the session pin LOW first and stays in the loop; a pass of the inner loop
\* that reads the session pin HIGH leaves the loop and acquires nothing; and
\* the inner loop is entered again only for a new session.
C8_SessionEndWins ==
    [][/\ Acquires => /\ pc = "inner" /\ pc' = "inner"
                      /\ input15' = LOW
                      /\ \A i \in (Len(trigLog) + 1)..Len(trigLog') :
                            trigLog'[i].sess = sessions
       /\ (pc = "inner" /\ input15' = HIGH) => (pc' = "poll" /\ ~Acquires)
       /\ (pc = "poll" /\ pc' \in LoopPcs \ {"poll"}) => sessions' = sessions + 1
      ]_vars

\* C8 witness: a session that enqueued a frame has just read the session pin
\* HIGH and left its inner loop.
C8_Witness ==
    /\ pc = "poll"
    /\ session_active
    /\ input15 = HIGH
    /\ Len(SessionItems(sessions)) >= 1

(***************************************************************************)
(* C9                                                                      *)
(***************************************************************************)
\* C9: a pass of the inner loop requests exactly one acquisition if the
\* previous sample of the frame pin was HIGH and the current one is LOW, and
\* none otherwise.
C9_FallingEdgeOnly ==
    [][(pc = "inner" /\ pc' = "inner") =>
          Len(trigLog') = Len(trigLog) +
              (IF last_state_pin16 = HIGH /\ last_state_pin16' = LOW THEN 1 ELSE 0)
      ]_vars

\* C9 witness: two falling edges in one session gave two frames, numbered 0
\* and 1.
C9_Witness ==
    \E s \in 1..sessions :
        /\ Len(SessionTriggers(s)) = 2
        /\ Len(SessionItems(s)) = 2
        /\ SessionItems(s)[1].seq = 0
        /\ SessionItems(s)[2].seq = 1

(***************************************************************************)
(* C10                                                                     *)
(***************************************************************************)
\* imwrite was called for channel ch of capture c
Attempted(c, ch) ==
    \/ <<c, ch>> \in failed
    \/ \E f \in written : f.capture = c /\ f.path.ch = ch

\* C10: every channel for which no file was written is logged, and once
\* capture_frame has returned for a capture, imwrite was called for each of
\* its channels.
C10_WriteFailureIsolatedPerFile ==
    /\ errLog = Cardinality(failed)
    /\ \A c \in finished : \A i \in 1..Len(frame_types) : Attempted(c, frame_types[i])

\* C10, what the code does: an imwrite that raises is logged once and ends
\* capture_frame for that capture.
C10_RaiseEndsTheFrame ==
    /\ errLog = faults - (IF wpc = "dead" THEN 1 ELSE 0)
    /\ errLog <= Cardinality(failed)

(***************************************************************************)
(* C11                                                                     *)
(***************************************************************************)
\* C11: after write_intrinsic_matrix has raised at session start, the stop
\* event is not set, the hardware is not released and the main thread is
\* still in its polling loop, from where it can open a new session.
C11_IntrinsicFailureEndsSessionOnly ==
    intrinsicFailed => /\ ~stop_event
                       /\ ~HardwareReleased
                       /\ pc \in LoopPcs

\* C11, what the code does: the exception is caught at line 169 outside the
\* while loop, end() sets the stop event and no session is opened any more.
C11_IntrinsicFailureEndsTheRun ==
    /\ intrinsicFailed => stop_event /\ pc \notin LoopPcs
    /\ [][intrinsicFailed => sessions' = sessions]_vars

(***************************************************************************)
(* C12                                                                     *)
(***************************************************************************)
\* C12: however often end() is called, camera.stop() and GPIO.cleanup() are
\* each called at most once, and exactly once when end() has returned.
C12_ReleasedExactlyOnce ==
    /\ camStops <= 1
    /\ gpioCleanups <= 1
    /\ pc = "done" => camStops = 1 /\ gpioCleanups = 1

\* C12, what the code does: every call of end() that returns has called
\* camera.stop() and GPIO.cleanup() once more.
C12_ReleasedOncePerCall ==
    /\ gpioCleanups <= camStops
    /\ camStops <= gpioCleanups + 1
    /\ pc = "done" => camStops = gpioCleanups /\ camStops >= 1
    /\ [][pc = "done" /\ pc' # "done" => stop_event /\ WorkerEnded]_vars

(***************************************************************************)
(* C13                                                                     *)
(***************************************************************************)
\* C13: no step clears the stop event once it is set, and no step taken
\* with the stop event set puts an item into the queue.
C13_StopIsFinal ==
    [][stop_event => /\ stop_event'
                     /\ Len(enqLog') = Len(enqLog)
                     /\ Len(frame_queue') <= Len(frame_queue)]_vars

\* C13 witness: the stop event is set after two frames were enqueued, the
\* save thread has taken the first and the second is still in the queue.
C13_Witness ==
    /\ stop_event
    /\ Len(enqLog) = 2
    /\ Len(frame_queue) = 1
    /\ wpc \in {"fold", "wr"}

(***************************************************************************)
(* C14                                                                     *)
(***************************************************************************)
\* C14: no failure while persisting a frame ends the save thread: it ends
\* only by its loop condition, with the queue empty and every item that was
\* put into the queue handled.
C14_WorkerSurvivesPersistenceFailures ==
    /\ wpc # "dead"
    /\ WorkerEnded => /\ frame_queue = <<>>
                      /\ \A c \in Enqueued : c \in finished

\* C14, the part that holds: an imwrite that raises does not end the save
\* thread; only a makedirs that raises does.
C14_WorkerSurvivesWriteFailures ==
    /\ [][wpc = "wr" => wpc' # "dead"]_vars
    /\ [](wpc = "dead" => faults = errLog + 1)

(***************************************************************************)
(* C15                                                                     *)
(***************************************************************************)
\* C15: whenever the stop event is set, the save thread eventually ends, the
\* join returns, camera.stop() and GPIO.cleanup() are called and end()
\* returns, provided both threads keep being scheduled.
C15_ShutdownTerminates ==
    stop_event ~> (WorkerEnded /\ pc = "done" /\ camStops >= 1 /\ gpioCleanups >= 1)

\* C15 witness: shutdown began in an active session with a frame enqueued,
\* the save thread drained the queue and left its loop, end() has returned.
C15_Witness ==
    /\ pc = "done"
    /\ session_active
    /\ wpc = "exited"
    /\ Len(enqLog) >= 1
    /\ gpioCleanups = 1

(***************************************************************************)
(* C16                                                                     *)
(***************************************************************************)
\* C16: a session requests no acquisition before its inner loop; its
\* directory exists from the calibration write on, its calibration snapshot
\* from the reset of the counter on; the counter is 0 when the inner loop
\* is entered and stays 0 up to the first acquisition; every item ever
\* enqueued belongs to a directory that exists and holds a snapshot.
C16_SessionStartOrder ==
    /\ pc \in {"mkdir", "intrinsic", "arm"} => SessionTriggers(sessions) = <<>>
    /\ pc \in {"intrinsic", "arm", "inner"} => TopDir(out_dir) \in dirs
    /\ pc \in {"arm", "inner"} => out_dir \in intrinsics
    /\ (pc = "inner" /\ SessionTriggers(sessions) = <<>>) => frame_count = 0
    /\ \A k \in Enqueued : /\ TopDir(enqLog[k].dir) \in dirs
                            /\ enqLog[k].dir \in intrinsics

\* C16 witness: a second session, in a directory of its own, has enqueued
\* its first frame, with sequence number 0, after the first session had
\* enqueued one.
C16_Witness ==
    /\ pc = "inner"
    /\ sessions = 2
    /\ Len(SessionItems(1)) = 1
    /\ Len(SessionItems(2)) = 1
    /\ SessionItems(2)[1].seq = 0
    /\ SessionItems(2)[1].dir # SessionItems(1)[1].dir

(***************************************************************************)
(* C17                                                                     *)
(***************************************************************************)
\* C17: sessions are opened and ended in turn: every session but the last
\* opened one has ended, and the last one has not ended while the main
\* thread is opening it or running its inner loop or the session flag is
\* set; with no session open, a LOW sample of the session pin opens one;
\* and the first item of every session carries sequence number 0.
C17_SessionsAlternate ==
    /\ sessionsEnded <= sessions
    /\ sessions <= sessionsEnded + 1
    /\ (session_active \/ pc \in {"mkdir", "intrinsic", "arm", "inner"})
          => sessions = sessionsEnded + 1
    /\ (pc = "poll" /\ ~session_active)
          => /\ sessions = sessionsEnded
             /\ sessions < MaxSessions => ENABLED PollStart
    /\ \A s \in 1..sessions :
          LET items == SessionItems(s)
          IN  items # <<>> => items[1].seq = 0

\* C17 witness: two sessions were opened and ended in one run, and each
\* enqueued one frame with sequence number 0.
C17_Witness ==
    /\ pc = "poll"
    /\ ~session_active
    /\ sessions = 2
    /\ sessionsEnded = 2
    /\ Len(SessionItems(1)) = 1
    /\ Len(SessionItems(2)) = 1
    /\ SessionItems(1)[1].seq = 0
    /\ SessionItems(2)[1].seq = 0

(***************************************************************************)
(* C18                                                                     *)
(***************************************************************************)
\* C18: items enqueued by different sessions belong to different output
\* directories, and no two captures are written to the same file.
C18_DistinctSessionDirectories ==
    /\ \A i, j \in Enqueued :
          enqLog[i].sess # enqLog[j].sess => enqLog[i].dir # enqLog[j].dir
    /\ \A f, g \in written :
          (enqLog[f.capture].sess # enqLog[g.capture].sess
             /\ f.path.dir = enqLog[f.capture].dir
             /\ g.path.dir = enqLog[g.capture].dir) => f.path # g.path

\* C18, what the code gives: items of one session share one directory, and
\* a directory name is the minute of the clock reading of line 139.
C18_OneDirectoryPerSession ==
    /\ \A i, j \in Enqueued :
          enqLog[i].sess = enqLog[j].sess => enqLog[i].dir = enqLog[j].dir
    /\ \A i \in Enqueued : \E t \in 0..MaxNow : enqLog[i].dir = JoinOutDir(Strftime(t))

(***************************************************************************)
(* C19                                                                     *)
(***************************************************************************)
\* the number of items the save thread is handling: it is inside
\* capture_frame with the item it took from the queue
InHand == IF wpc \in {"fold", "wr"} THEN 1 ELSE 0

\* no capture was taken from the queue twice
TakenOnce == \A i, j \in 1..Len(startLog) : startLog[i] = startLog[j] => i = j

\* C19: the number of items put into the queue is the number of items
\* capture_frame has returned for, plus the number of items in the queue,
\* plus the item the save thread is handling, if any; and no item is taken
\* from the queue twice.
C19_FramesConserved ==
    /\ Len(enqLog) = Cardinality(finished) + Len(frame_queue) + InHand
    /\ InHand = Len(frame_data)
    /\ TakenOnce

\* C19, what holds: the count is right as long as the save thread has not
\* been ended by an exception; when it has, the item it held is in no
\* count any more.
C19_ConservedWhileWorkerRuns ==
    /\ wpc # "dead" => Len(enqLog) = Cardinality(finished) + Len(frame_queue) + InHand
    /\ wpc = "dead" => Len(enqLog) = Cardinality(finished) + Len(frame_queue) + 1
    /\ TakenOnce

(***************************************************************************)
(* C20                                                                     *)
(***************************************************************************)
\* C20: the step that opens the inner loop of a session samples the frame
\* pin and makes that sample the previous-sample value; and a pass of the
\* inner loop requests an acquisition only if the sample before it, taken in
\* the same session, was HIGH and its own sample is LOW.  A frame pin that
\* is LOW at session start therefore triggers nothing before it has been
\* sampled HIGH in that session.
C20_FreshBaseline ==
    [][/\ (pc = "arm" /\ pc' = "inner")
            => (input16' \in Levels /\ last_state_pin16' = input16')
       /\ (pc = "inner" /\ pc' = "inner") => last_state_pin16' = input16'
       /\ (pc \in LoopPcs /\ pc' = "mkdir") => input16' = NotRead
       /\ Len(trigLog') > Len(trigLog) => (input16 = HIGH /\ input16' = LOW)
      ]_vars

\* C20 witness: a second session was opened after a session that had
\* triggered; its samples of the frame pin were LOW from the start and it
\* has requested no acquisition.
C20_Witness ==
    /\ pc = "inner"
    /\ sessions = 2
    /\ Len(SessionTriggers(1)) >= 1
    /\ SessionTriggers(2) = <<>>
    /\ input16 = LOW
    /\ last_state_pin16 = LOW

====
